---- MODULE Spec2Model ----
(***************************************************************************)
(* Model of src/src/app/page.tsx: the page with the two tabs, the bomb     *)
(* countdown (DefuseTab) and the tug-of-war bar (DominationTab).           *)
(*                                                                         *)
(* One action is one task of the browser's event loop: the handler or      *)
(* timer callback, the React state updates it batches, the render that     *)
(* commits them and the effects of that commit (the interval effect of     *)
(* DefuseTab, the ref-mirroring effects of DominationTab).                 *)
(*                                                                         *)
(* The only tab that is mounted holds state: BombGamePage renders either   *)
(* <DefuseTab/> or <DominationTab/>, so selecting the other tab unmounts   *)
(* the component and the next mount starts from the useState initialisers. *)
(* The variables of the unmounted tab hold those initial values.           *)
(***************************************************************************)
EXTENDS Integers, FiniteSets, Sequences, TLC

(* ------------------------------ bounds ------------------------------- *)
\* seconds field of the setup dialog ranges over 0..MaxSec
MaxSec == 5
\* presses of the red/blue buttons explored between two resets
MaxKicks == 2
\* the minutes field of the setup dialog
MinuteInputs == {0}
SecondInputs == 0 .. MaxSec
\* values of performance.now() a callback can read, in milliseconds
Times == {0, 1800000, 3600000}
\* raw contents of the fill-time field: <<>> is the empty field, <<n>> the number n
FillInputs == {<<>>, <<-5>>, <<0>>, <<1>>, <<3600>>, <<5000>>}

(* ------------------------- program constants ------------------------- *)
NumPads == 9
Pads == 0 .. (NumPads - 1)
MaxMinutes == 999
MaxSeconds == 59
UrgentBelow == 10
VibrateBelow == 5
DefaultFill == 60
MinFill == 1
MaxFill == 3600
FullPct == 100
\* kickDt = 0.06 s
KickDtMs == 60

\* value is held in whole units of 1/Units percent; one unit is the kick at
\* the longest fill time, 100 / 3600 * 0.06 = 1/600 percent.  Every step the
\* model takes (fill times dividing 3600, dt a multiple of 60 ms) is a whole
\* number of units, so the arithmetic is exact where the code rounds doubles.
Units == (10 * MaxFill) \div KickDtMs
Bound == FullPct * Units

VARIABLES
    tab,
    \* DefuseTab
    totalSeconds, timeLeft, isRunning,
    showSetup, showExploded, showDisarmed,
    disarmMode, pressed,
    intervalRef,
    \* TimeSetupModal
    error,
    \* the host's timer task of the countdown interval
    tickTask,
    \* number of countdown callbacks run since the last applySetup
    ticksRun,
    \* the handler or callback the last step ran
    op,
    \* feedback (sound, vibration) emitted by the last step
    fx,
    \* DominationTab
    value, active, fillTimeSec,
    valueRef, activeRef, fillTimeRef, lastTickRef,
    \* kicks since the last reset
    kicks,
    \* the time the last setActiveAndKick(side) read, <<>> before the first
    kickAt,
    \* <<side, ms>>: side was set with the bar at 0 and the ticks since have
    \* integrated ms milliseconds at one fill time; <<>> otherwise
    run

defuseVars == <<totalSeconds, timeLeft, isRunning, showSetup, showExploded,
                showDisarmed, disarmMode, pressed, intervalRef, error, ticksRun>>
domVars == <<value, active, fillTimeSec, valueRef, activeRef, fillTimeRef,
             lastTickRef, kicks, kickAt, run>>
vars == <<tab, defuseVars, tickTask, op, fx, domVars>>

NoPads == [i \in Pads |-> FALSE]

\* the outcome of the countdown as the page shows it
Outcome ==
    IF showExploded THEN "EXPIRED"
    ELSE IF showDisarmed THEN "DISARMED"
    ELSE "NONE"

(* ----------------------------- DefuseTab ----------------------------- *)

\* useState initialisers of DefuseTab and TimeSetupModal
DefuseMount ==
    /\ totalSeconds' = 0
    /\ timeLeft' = 0
    /\ isRunning' = FALSE
    /\ showSetup' = TRUE
    /\ showExploded' = FALSE
    /\ showDisarmed' = FALSE
    /\ disarmMode' = FALSE
    /\ pressed' = NoPads
    /\ intervalRef' = "null"
    /\ error' = FALSE
    /\ ticksRun' = 0

\* mutant: clearTick that leaves a queued timer task in place
ClearTickTaskKeeps(task) == task

\* clearTick: clearInterval drops the interval, and with it a timer task the
\* host had already queued for it (the task finds its id gone and aborts)
ClearTickTask(task) == IF task = "live" THEN "stale" ELSE task

\* mutant: the effect never sets the interval
IntervalAfterNever(running) == "null"

\* the effect on [isRunning]: its cleanup is clearTick, its body sets the
\* interval when isRunning is true
IntervalAfter(running) == IF running THEN "set" ELSE "null"

TaskAfter(wasRunning, running, task) ==
    IF wasRunning /\ ~running THEN ClearTickTask(task) ELSE task

clampInt(n, min, max) ==
    IF n < min THEN min ELSE IF n > max THEN max ELSE n

\* mutant: applySetup without setPressed(Array(9).fill(false))
applySetupKeepsPads(seconds) ==
    /\ totalSeconds' = seconds
    /\ timeLeft' = seconds
    /\ showSetup' = FALSE
    /\ showExploded' = FALSE
    /\ showDisarmed' = FALSE
    /\ isRunning' = FALSE
    /\ disarmMode' = FALSE
    /\ pressed' = pressed
    /\ intervalRef' = IntervalAfter(FALSE)
    /\ tickTask' = TaskAfter(isRunning, FALSE, tickTask)
    /\ error' = FALSE
    /\ ticksRun' = 0
    /\ fx' = {}


applySetup(seconds) ==
    /\ totalSeconds' = seconds
    /\ timeLeft' = seconds
    /\ showSetup' = FALSE
    /\ showExploded' = FALSE
    /\ showDisarmed' = FALSE
    /\ isRunning' = FALSE
    /\ disarmMode' = FALSE
    /\ pressed' = NoPads
    /\ intervalRef' = IntervalAfter(FALSE)
    /\ tickTask' = TaskAfter(isRunning, FALSE, tickTask)
    /\ error' = FALSE
    /\ ticksRun' = 0
    /\ fx' = {}

\* TimeSetupModal.submit with the two fields holding m and s
Submit(m, s) ==
    /\ tab = "defuse"
    /\ op' = "submit"
    /\ showSetup
    /\ LET minutes == clampInt(m, 0, MaxMinutes)
           seconds == clampInt(s, 0, MaxSeconds)
           total == minutes * 60 + seconds
       IN  IF total <= 0
           THEN /\ error' = TRUE
                /\ fx' = {}
                /\ UNCHANGED <<totalSeconds, timeLeft, isRunning, showSetup,
                               showExploded, showDisarmed, disarmMode, pressed,
                               intervalRef, ticksRun, tickTask>>
           ELSE applySetup(total)
    /\ UNCHANGED <<tab, domVars>>

openSetup ==
    /\ tab = "defuse"
    /\ op' = "openSetup"
    /\ showSetup' = TRUE
    /\ error' = IF showSetup THEN error ELSE FALSE
    /\ fx' = {}
    /\ UNCHANGED <<tab, totalSeconds, timeLeft, isRunning, showExploded,
                   showDisarmed, disarmMode, pressed, intervalRef, ticksRun,
                   tickTask, domVars>>

\* onClose of the setup dialog (backdrop or cancel button)
CloseSetup ==
    /\ tab = "defuse"
    /\ op' = "closeSetup"
    /\ showSetup
    /\ showSetup' = FALSE
    /\ error' = FALSE
    /\ fx' = {}
    /\ UNCHANGED <<tab, totalSeconds, timeLeft, isRunning, showExploded,
                   showDisarmed, disarmMode, pressed, intervalRef, ticksRun,
                   tickTask, domVars>>

\* mutant: a start button that is not disabled by the outcome dialogs
StartDisabledNoDialogs == isRunning \/ timeLeft <= 0

\* disabled attribute of the start button
StartDisabled == isRunning \/ timeLeft <= 0 \/ showExploded \/ showDisarmed

\* a press of the start button: nothing when the button is disabled, else
\* startTimer
startTimer ==
    /\ tab = "defuse"
    /\ op' = "startTimer"
    /\ fx' = {}
    /\ IF StartDisabled \/ timeLeft <= 0
       THEN UNCHANGED <<isRunning, intervalRef, tickTask>>
       ELSE /\ isRunning' = TRUE
            /\ intervalRef' = IntervalAfter(TRUE)
            /\ tickTask' = TaskAfter(isRunning, TRUE, tickTask)
    /\ UNCHANGED <<tab, totalSeconds, timeLeft, showSetup, showExploded,
                   showDisarmed, disarmMode, pressed, error, ticksRun, domVars>>

\* disabled attribute of the disarm button
DisarmDisabled == showExploded \/ showDisarmed \/ totalSeconds = 0

\* mutant: the check reads the switches 1..9 and so one past the end
allPressedOffByOne == \A i \in 1 .. NumPads : i \in Pads /\ pressed[i]

\* mutant: some() in place of every()
allPressedSome == \E i \in Pads : pressed[i]


allPressed == \A i \in Pads : pressed[i]

\* mutant: starting an attempt keeps the switches of the last one
toggleDisarmNoClear ==
    /\ tab = "defuse"
    /\ op' = "toggleDisarm"
    /\ ~DisarmDisabled
    /\ IF ~disarmMode
       THEN /\ pressed' = pressed
            /\ disarmMode' = TRUE
            /\ fx' = {}
            /\ UNCHANGED <<isRunning, showDisarmed, intervalRef, tickTask>>
       ELSE IF allPressed
            THEN /\ isRunning' = FALSE
                 /\ disarmMode' = FALSE
                 /\ showDisarmed' = TRUE
                 /\ intervalRef' = IntervalAfter(FALSE)
                 /\ tickTask' = TaskAfter(isRunning, FALSE, tickTask)
                 /\ fx' = {"success", "vibrate120"}
                 /\ UNCHANGED pressed
            ELSE /\ fx' = {"shake", "vibrate60", "failBeep"}
                 /\ UNCHANGED <<isRunning, disarmMode, showDisarmed, pressed,
                                intervalRef, tickTask>>
    /\ UNCHANGED <<tab, totalSeconds, timeLeft, showSetup, showExploded,
                   error, ticksRun, domVars>>

toggleDisarm ==
    /\ tab = "defuse"
    /\ op' = "toggleDisarm"
    /\ ~DisarmDisabled
    /\ IF ~disarmMode
       THEN /\ pressed' = NoPads
            /\ disarmMode' = TRUE
            /\ fx' = {}
            /\ UNCHANGED <<isRunning, showDisarmed, intervalRef, tickTask>>
       ELSE IF allPressed
            THEN /\ isRunning' = FALSE
                 /\ disarmMode' = FALSE
                 /\ showDisarmed' = TRUE
                 /\ intervalRef' = IntervalAfter(FALSE)
                 /\ tickTask' = TaskAfter(isRunning, FALSE, tickTask)
                 /\ fx' = {"success", "vibrate120"}
                 /\ UNCHANGED pressed
            ELSE /\ fx' = {"shake", "vibrate60", "failBeep"}
                 /\ UNCHANGED <<isRunning, disarmMode, showDisarmed, pressed,
                                intervalRef, tickTask>>
    /\ UNCHANGED <<tab, totalSeconds, timeLeft, showSetup, showExploded,
                   error, ticksRun, domVars>>

\* mutant: the pads can be pressed whether or not the panel is shown
pressPadAlways(i) ==
    /\ tab = "defuse"
    /\ op' = "pressPad"
    /\ pressed' = IF pressed[i] THEN pressed ELSE [pressed EXCEPT ![i] = TRUE]
    /\ fx' = {"padTone"}
    /\ UNCHANGED <<tab, totalSeconds, timeLeft, isRunning, showSetup,
                   showExploded, showDisarmed, disarmMode, intervalRef, error,
                   ticksRun, tickTask, domVars>>

\* mutant: a press flips the switch
pressPadToggle(i) ==
    /\ tab = "defuse"
    /\ op' = "pressPad"
    /\ disarmMode
    /\ pressed' = [pressed EXCEPT ![i] = ~pressed[i]]
    /\ fx' = {"padTone"}
    /\ UNCHANGED <<tab, totalSeconds, timeLeft, isRunning, showSetup,
                   showExploded, showDisarmed, disarmMode, intervalRef, error,
                   ticksRun, tickTask, domVars>>

\* the pads are rendered only in disarm mode
pressPad(i) ==
    /\ tab = "defuse"
    /\ op' = "pressPad"
    /\ disarmMode
    /\ pressed' = IF pressed[i] THEN pressed ELSE [pressed EXCEPT ![i] = TRUE]
    /\ fx' = {"padTone"}
    /\ UNCHANGED <<tab, totalSeconds, timeLeft, isRunning, showSetup,
                   showExploded, showDisarmed, disarmMode, intervalRef, error,
                   ticksRun, tickTask, domVars>>

\* onClose of the exploded dialog; toSetup is the "set time again" button
CloseExploded(toSetup) ==
    /\ tab = "defuse"
    /\ op' = "closeExploded"
    /\ showExploded
    /\ showExploded' = FALSE
    /\ showSetup' = (showSetup \/ toSetup)
    /\ error' = IF showSetup THEN error ELSE FALSE
    /\ fx' = {}
    /\ UNCHANGED <<tab, totalSeconds, timeLeft, isRunning, showDisarmed,
                   disarmMode, pressed, intervalRef, ticksRun, tickTask,
                   domVars>>

CloseDisarmed(toSetup) ==
    /\ tab = "defuse"
    /\ op' = "closeDisarmed"
    /\ showDisarmed
    /\ showDisarmed' = FALSE
    /\ showSetup' = (showSetup \/ toSetup)
    /\ error' = IF showSetup THEN error ELSE FALSE
    /\ fx' = {}
    /\ UNCHANGED <<tab, totalSeconds, timeLeft, isRunning, showExploded,
                   disarmMode, pressed, intervalRef, ticksRun, tickTask,
                   domVars>>

\* mutant: urgent only below ten seconds
playTickBelow(secondLeft) ==
    IF secondLeft < UrgentBelow THEN {"tickUrgent"} ELSE {"tick"}

\* playTick(secondLeft)
playTick(secondLeft) ==
    IF secondLeft <= UrgentBelow THEN {"tickUrgent"} ELSE {"tick"}

\* the host queues the timer task of the one-second interval
TimerDue ==
    /\ tab = "defuse"
    /\ op' = "timerDue"
    /\ intervalRef = "set"
    /\ tickTask = "none"
    /\ tickTask' = "live"
    /\ fx' = {}
    /\ UNCHANGED <<tab, defuseVars, domVars>>

\* mutant: the expiry branch without setIsRunning(false)
tickCallbackKeepsRunning ==
    IF timeLeft <= 1
    THEN /\ timeLeft' = 0
         /\ isRunning' = isRunning
         /\ disarmMode' = FALSE
         /\ showExploded' = TRUE
         /\ intervalRef' = intervalRef
         /\ fx' = {"explosion", "vibrate200"}
    ELSE /\ timeLeft' = timeLeft - 1
         /\ fx' = playTick(timeLeft - 1) \cup
                    (IF timeLeft - 1 <= VibrateBelow THEN {"vibrate30"} ELSE {})
         /\ UNCHANGED <<isRunning, disarmMode, showExploded, intervalRef>>

\* mutant: the expiry test is prev <= 0
tickCallbackLate ==
    IF timeLeft <= 0
    THEN /\ timeLeft' = 0
         /\ isRunning' = FALSE
         /\ disarmMode' = FALSE
         /\ showExploded' = TRUE
         /\ intervalRef' = "null"
         /\ fx' = {"explosion", "vibrate200"}
    ELSE /\ timeLeft' = timeLeft - 1
         /\ fx' = playTick(timeLeft - 1) \cup
                    (IF timeLeft - 1 <= VibrateBelow THEN {"vibrate30"} ELSE {})
         /\ UNCHANGED <<isRunning, disarmMode, showExploded, intervalRef>>

\* mutant: next = prev + 1
tickCallbackUp ==
    IF timeLeft <= 1
    THEN /\ timeLeft' = 0
         /\ isRunning' = FALSE
         /\ disarmMode' = FALSE
         /\ showExploded' = TRUE
         /\ intervalRef' = "null"
         /\ fx' = {"explosion", "vibrate200"}
    ELSE /\ timeLeft' = timeLeft + 1
         /\ fx' = playTick(timeLeft + 1) \cup
                    (IF timeLeft + 1 <= VibrateBelow THEN {"vibrate30"} ELSE {})
         /\ UNCHANGED <<isRunning, disarmMode, showExploded, intervalRef>>

\* the callback given to setInterval: setTimeLeft((prev) => ...)
tickCallback ==
    IF timeLeft <= 1
    THEN /\ timeLeft' = 0
         /\ isRunning' = FALSE
         /\ disarmMode' = FALSE
         /\ showExploded' = TRUE
         /\ intervalRef' = "null"
         /\ fx' = {"explosion", "vibrate200"}
    ELSE /\ timeLeft' = timeLeft - 1
         /\ fx' = playTick(timeLeft - 1) \cup
                    (IF timeLeft - 1 <= VibrateBelow THEN {"vibrate30"} ELSE {})
         /\ UNCHANGED <<isRunning, disarmMode, showExploded, intervalRef>>

\* the host runs the queued timer task: the callback, or nothing when the
\* interval was cleared after the task was queued
RunTickTask ==
    /\ tickTask # "none"
    /\ op' = IF tickTask = "live" THEN "tick" ELSE "droppedTick"
    /\ tickTask' = "none"
    /\ IF tickTask = "live"
       THEN /\ tickCallback
            /\ ticksRun' = ticksRun + 1
            /\ UNCHANGED <<totalSeconds, showSetup, showDisarmed, pressed, error>>
       ELSE /\ fx' = {}
            /\ UNCHANGED defuseVars
    /\ UNCHANGED <<tab, domVars>>

(* --------------------------- DominationTab --------------------------- *)

DomMount ==
    /\ value' = 0
    /\ active' = "null"
    /\ fillTimeSec' = DefaultFill
    /\ valueRef' = 0
    /\ activeRef' = "null"
    /\ fillTimeRef' = DefaultFill
    /\ lastTickRef' = <<>>
    /\ kicks' = 0
    /\ kickAt' = <<>>
    /\ run' = <<>>

\* mutant: half the rate
stepOverHalf(fillTime, dtMs) ==
    ((Units \div 20) * dtMs) \div (IF fillTime < 1 THEN 1 ELSE fillTime)

\* 100 / Math.max(1, fillTime) percent per second, over dtMs milliseconds, in units
stepOver(fillTime, dtMs) ==
    ((Units \div 10) * dtMs) \div (IF fillTime < 1 THEN 1 ELSE fillTime)

\* mutant: only the upper clamp
clampValueUpperOnly(next) ==
    IF next > Bound THEN Bound ELSE next

\* if (next > 100) next = 100; if (next < -100) next = -100
clampValue(next) ==
    IF next > Bound THEN Bound ELSE IF next < -Bound THEN -Bound ELSE next

\* mutant: every side pushes towards red
dirOfRed(side) == 1

dirOf(side) == IF side = "red" THEN 1 ELSE -1

\* mutant: the idle branch returns without refreshing lastTickRef
domTickIdleKeepsStamp(now) ==
    /\ tab = "domination"
    /\ op' = "domTick"
    /\ IF activeRef = "null"
       THEN UNCHANGED <<lastTickRef, value, active, valueRef, activeRef, run>>
       ELSE LET last == IF lastTickRef = <<>> THEN now ELSE lastTickRef[1]
                dtMs == IF now - last < 0 THEN 0 ELSE now - last
                next == clampValue(valueRef + dirOf(activeRef) * stepOver(fillTimeRef, dtMs))
                full == \/ (activeRef = "red" /\ next >= Bound)
                        \/ (activeRef = "blue" /\ next <= -Bound)
            IN  /\ lastTickRef' = <<now>>
                /\ valueRef' = next
                /\ value' = next
                /\ active' = IF full THEN "null" ELSE active
                /\ activeRef' = active'
                /\ run' = IF run = <<>> THEN <<>> ELSE <<run[1], run[2] + dtMs>>
    /\ fx' = {}
    /\ UNCHANGED <<tab, defuseVars, tickTask, fillTimeSec, fillTimeRef, kicks,
                   kickAt>>

\* the callback of the always-on 50 ms interval, reading now from performance.now()
domTick(now) ==
    /\ tab = "domination"
    /\ op' = "domTick"
    /\ IF activeRef = "null"
       THEN /\ lastTickRef' = <<now>>
            /\ UNCHANGED <<value, active, valueRef, activeRef, run>>
       ELSE LET last == IF lastTickRef = <<>> THEN now ELSE lastTickRef[1]
                dtMs == IF now - last < 0 THEN 0 ELSE now - last
                next == clampValue(valueRef + dirOf(activeRef) * stepOver(fillTimeRef, dtMs))
                full == \/ (activeRef = "red" /\ next >= Bound)
                        \/ (activeRef = "blue" /\ next <= -Bound)
            IN  /\ lastTickRef' = <<now>>
                /\ valueRef' = next
                /\ value' = next
                /\ active' = IF full THEN "null" ELSE active
                /\ activeRef' = active'
                /\ run' = IF run = <<>> THEN <<>> ELSE <<run[1], run[2] + dtMs>>
    /\ fx' = {}
    /\ UNCHANGED <<tab, defuseVars, tickTask, fillTimeSec, fillTimeRef, kicks,
                   kickAt>>

\* mutant: no kick when the side pressed is already the actor
kickIfChanged(side, now) ==
    LET next == IF activeRef = side THEN valueRef
                ELSE clampValue(valueRef + dirOf(side) * stepOver(fillTimeRef, KickDtMs))
    IN  /\ active' = side
        /\ activeRef' = side
        /\ valueRef' = next
        /\ value' = next
        /\ lastTickRef' = <<now>>

\* setActiveAndKick(side) for side "red" or "blue"
kick(side, now) ==
    LET next == clampValue(valueRef + dirOf(side) * stepOver(fillTimeRef, KickDtMs))
    IN  /\ active' = side
        /\ activeRef' = side
        /\ valueRef' = next
        /\ value' = next
        /\ lastTickRef' = <<now>>

\* handleRed, handleBlue
handleSide(side, now) ==
    /\ tab = "domination"
    /\ op' = "handleSide"
    /\ kicks < MaxKicks
    /\ kick(side, now)
    /\ kicks' = kicks + 1
    /\ kickAt' = <<now>>
    /\ run' = IF valueRef = 0 THEN <<side, 0>> ELSE <<>>
    /\ fx' = {}
    /\ UNCHANGED <<tab, defuseVars, tickTask, fillTimeSec, fillTimeRef>>

\* mutant: the effect that mirrors active into activeRef does not run
handlePauseNoSync ==
    /\ tab = "domination"
    /\ op' = "handlePause"
    /\ active' = "null"
    /\ activeRef' = activeRef
    /\ fx' = {}
    /\ run' = <<>>
    /\ UNCHANGED <<tab, defuseVars, tickTask, value, valueRef, lastTickRef,
                   fillTimeSec, fillTimeRef, kicks, kickAt>>

\* handlePause: setActiveAndKick(null)
handlePause ==
    /\ tab = "domination"
    /\ op' = "handlePause"
    /\ active' = "null"
    /\ activeRef' = "null"
    /\ fx' = {}
    /\ run' = <<>>
    /\ UNCHANGED <<tab, defuseVars, tickTask, value, valueRef, lastTickRef,
                   fillTimeSec, fillTimeRef, kicks, kickAt>>

\* mutant: reset without the timestamp of line 688
handleResetNoStamp(now) ==
    /\ tab = "domination"
    /\ op' = "handleReset"
    /\ active' = "null"
    /\ activeRef' = "null"
    /\ valueRef' = 0
    /\ value' = 0
    /\ lastTickRef' = lastTickRef
    /\ kicks' = 0
    /\ run' = <<>>
    /\ fx' = {}
    /\ UNCHANGED <<tab, defuseVars, tickTask, fillTimeSec, fillTimeRef, kickAt>>

handleReset(now) ==
    /\ tab = "domination"
    /\ op' = "handleReset"
    /\ active' = "null"
    /\ activeRef' = "null"
    /\ valueRef' = 0
    /\ value' = 0
    /\ lastTickRef' = <<now>>
    /\ kicks' = 0
    /\ run' = <<>>
    /\ fx' = {}
    /\ UNCHANGED <<tab, defuseVars, tickTask, fillTimeSec, fillTimeRef, kickAt>>

\* mutant: no lower clamp
parseFillNoFloor(raw) ==
    LET n == IF raw = <<>> THEN DefaultFill ELSE raw[1]
    IN  IF n > MaxFill THEN MaxFill ELSE n

\* Math.max(1, Math.min(3600, Number(e.target.value || 60)))
parseFill(raw) ==
    LET n == IF raw = <<>> THEN DefaultFill ELSE raw[1]
        lo == IF n > MaxFill THEN MaxFill ELSE n
    IN  IF lo < MinFill THEN MinFill ELSE lo

\* mutant: the effect that mirrors fillTimeSec into fillTimeRef does not run
setFillTimeNoSync(raw) ==
    /\ tab = "domination"
    /\ op' = "setFillTime"
    /\ fillTimeSec' = parseFill(raw)
    /\ fillTimeRef' = fillTimeRef
    /\ run' = IF parseFill(raw) = fillTimeSec THEN run ELSE <<>>
    /\ fx' = {}
    /\ UNCHANGED <<tab, defuseVars, tickTask, value, active, valueRef,
                   activeRef, lastTickRef, kicks, kickAt>>

\* onChange of the fill-time field
setFillTime(raw) ==
    /\ tab = "domination"
    /\ op' = "setFillTime"
    /\ fillTimeSec' = parseFill(raw)
    /\ fillTimeRef' = parseFill(raw)
    /\ run' = IF parseFill(raw) = fillTimeSec THEN run ELSE <<>>
    /\ fx' = {}
    /\ UNCHANGED <<tab, defuseVars, tickTask, value, active, valueRef,
                   activeRef, lastTickRef, kicks, kickAt>>

(* ------------------------------ the page ----------------------------- *)

\* TabButton onClick: setTab(t); the other tab is unmounted and its interval
\* cleared by the cleanup of its effect
SelectTab(t) ==
    /\ t # tab
    /\ op' = "setTab"
    /\ tab' = t
    /\ DefuseMount
    /\ DomMount
    /\ tickTask' = ClearTickTask(tickTask)
    /\ fx' = {}

Init ==
    /\ tab = "defuse"
    /\ totalSeconds = 0
    /\ timeLeft = 0
    /\ isRunning = FALSE
    /\ showSetup = TRUE
    /\ showExploded = FALSE
    /\ showDisarmed = FALSE
    /\ disarmMode = FALSE
    /\ pressed = NoPads
    /\ intervalRef = "null"
    /\ error = FALSE
    /\ tickTask = "none"
    /\ ticksRun = 0
    /\ op = "mount"
    /\ fx = {}
    /\ value = 0
    /\ active = "null"
    /\ fillTimeSec = DefaultFill
    /\ valueRef = 0
    /\ activeRef = "null"
    /\ fillTimeRef = DefaultFill
    /\ lastTickRef = <<>>
    /\ kicks = 0
    /\ kickAt = <<>>
    /\ run = <<>>

Next ==
    \/ \E m \in MinuteInputs, s \in SecondInputs : Submit(m, s)
    \/ openSetup
    \/ CloseSetup
    \/ startTimer
    \/ toggleDisarm
    \/ \E i \in Pads : pressPad(i)
    \/ \E b \in BOOLEAN : CloseExploded(b)
    \/ \E b \in BOOLEAN : CloseDisarmed(b)
    \/ TimerDue
    \/ RunTickTask
    \/ \E t \in {"defuse", "domination"} : SelectTab(t)
    \/ \E now \in Times : domTick(now)
    \/ \E side \in {"red", "blue"}, now \in Times : handleSide(side, now)
    \/ handlePause
    \/ \E now \in Times : handleReset(now)
    \/ \E raw \in FillInputs : setFillTime(raw)

Spec == Init /\ [][Next]_vars

(* The domination tab alone, with fill times 1, 10 and 60 and timestamps  *)
(* five seconds apart, so that a fill time is covered exactly by ticks.   *)
RateTimes == {0, 5000, 10000}
RateFillInputs == {<<>>, <<1>>, <<10>>}

\* the state after the domination tab was selected
InitRate ==
    /\ tab = "domination"
    /\ totalSeconds = 0
    /\ timeLeft = 0
    /\ isRunning = FALSE
    /\ showSetup = TRUE
    /\ showExploded = FALSE
    /\ showDisarmed = FALSE
    /\ disarmMode = FALSE
    /\ pressed = NoPads
    /\ intervalRef = "null"
    /\ error = FALSE
    /\ tickTask = "none"
    /\ ticksRun = 0
    /\ op = "setTab"
    /\ fx = {}
    /\ value = 0
    /\ active = "null"
    /\ fillTimeSec = DefaultFill
    /\ valueRef = 0
    /\ activeRef = "null"
    /\ fillTimeRef = DefaultFill
    /\ lastTickRef = <<>>
    /\ kicks = 0
    /\ kickAt = <<>>
    /\ run = <<>>

NextRate ==
    \/ \E now \in RateTimes : domTick(now)
    \/ \E side \in {"red", "blue"}, now \in RateTimes : handleSide(side, now)
    \/ handlePause
    \/ \E now \in RateTimes : handleReset(now)
    \/ \E raw \in RateFillInputs : setFillTime(raw)

SpecRate == InitRate /\ [][NextRate]_vars

(* The program with a host that keeps firing the one-second interval: a   *)
(* set interval's timer task is queued again and again, and a queued task *)
(* is run.                                                                *)
LiveSeconds == {1, 3}

NextLive ==
    \/ \E s \in LiveSeconds \cup {0} : Submit(0, s)
    \/ openSetup
    \/ CloseSetup
    \/ startTimer
    \/ toggleDisarm
    \/ \E i \in Pads : pressPad(i)
    \/ \E b \in BOOLEAN : CloseExploded(b)
    \/ \E b \in BOOLEAN : CloseDisarmed(b)
    \/ TimerDue
    \/ RunTickTask
    \/ \E t \in {"defuse", "domination"} : SelectTab(t)

SpecLive == Init /\ [][NextLive]_vars /\ WF_vars(TimerDue) /\ WF_vars(RunTickTask)

(* The defuse tab alone, with countdowns long enough for the ticks above  *)
(* ten seconds.                                                           *)
TickSeconds == {1, 12}

NextTick ==
    \/ \E s \in TickSeconds \cup {0} : Submit(0, s)
    \/ openSetup
    \/ CloseSetup
    \/ startTimer
    \/ toggleDisarm
    \/ \E i \in Pads : pressPad(i)
    \/ \E b \in BOOLEAN : CloseExploded(b)
    \/ \E b \in BOOLEAN : CloseDisarmed(b)
    \/ TimerDue
    \/ RunTickTask

SpecTick == Init /\ [][NextTick]_vars

(* The expiring tick in two steps.  The interval callback calls            *)
(* setTimeLeft(updater) outside any event handler, so React runs the       *)
(* updater's calls (clearTick, the setters, the feedback) in the timer     *)
(* task but renders the new state in a later task of its scheduler.  A     *)
(* click the host dispatches in between runs its handler with the state of *)
(* the last render: the variables here are that rendered state, and        *)
(* tickTask = "expired" says the updates of the expiry branch are queued.  *)
(* Submit and startTimer write state the queued updates write too and are  *)
(* left out of that interval; every behaviour kept is one of the program.  *)
RaceSeconds == {1, 2}

\* the interval callback taking the prev <= 1 branch: lines 285-292
ExpiryCallback ==
    /\ tab = "defuse"
    /\ tickTask = "live"
    /\ timeLeft <= 1
    /\ op' = "tickCallback"
    /\ tickTask' = "expired"
    /\ intervalRef' = "null"
    /\ ticksRun' = ticksRun + 1
    /\ fx' = {"explosion", "vibrate200"}
    /\ UNCHANGED <<tab, totalSeconds, timeLeft, isRunning, showSetup,
                   showExploded, showDisarmed, disarmMode, pressed, error,
                   domVars>>

\* React renders the updates the expiry branch queued
CommitExpiry ==
    /\ tab = "defuse"
    /\ tickTask = "expired"
    /\ op' = "tick"
    /\ tickTask' = "none"
    /\ timeLeft' = 0
    /\ isRunning' = FALSE
    /\ disarmMode' = FALSE
    /\ showExploded' = TRUE
    /\ intervalRef' = "null"
    /\ fx' = {}
    /\ UNCHANGED <<tab, totalSeconds, showSetup, showDisarmed, pressed, error,
                   ticksRun, domVars>>

\* the setup dialog's submit, with no expiry queued
RaceSubmit(s) == tickTask # "expired" /\ Submit(0, s)

\* the start button, with no expiry queued
RaceStart == tickTask # "expired" /\ startTimer

\* a timer task that is dropped or takes the branch of lines 294-297
RaceTick ==
    /\ tickTask \in {"live", "stale"}
    /\ tickTask = "live" => timeLeft > 1
    /\ RunTickTask

NextRace ==
    \/ \E s \in RaceSeconds \cup {0} : RaceSubmit(s)
    \/ openSetup
    \/ CloseSetup
    \/ RaceStart
    \/ toggleDisarm
    \/ \E i \in Pads : pressPad(i)
    \/ \E b \in BOOLEAN : CloseExploded(b)
    \/ \E b \in BOOLEAN : CloseDisarmed(b)
    \/ TimerDue
    \/ RaceTick
    \/ ExpiryCallback
    \/ CommitExpiry

SpecRace == Init /\ [][NextRace]_vars

(* ------------------------------ claims ------------------------------- *)

\* a step that is applySetup with a total above 0
ConfigureStep ==
    \E m \in MinuteInputs, s \in SecondInputs : m * 60 + s > 0 /\ Submit(m, s)

\* a step that runs the countdown callback
TickStep == tickTask = "live" /\ RunTickTask

\* C1: running is false whenever the outcome is not NONE or remaining is 0
C1_RunningOnlyWhileLive ==
    (Outcome # "NONE" \/ timeLeft = 0) => ~isRunning

\* C1 witness: the countdown ran to the end and stopped with the exploded dialog
C1_Witness ==
    /\ op = "tick"
    /\ Outcome = "EXPIRED"
    /\ timeLeft = 0
    /\ ~isRunning
    /\ totalSeconds > 1

\* C2: once the outcome is EXPIRED or DISARMED it keeps that value, running
\* stays false and remaining stays as it is under every step of the mounted
\* countdown other than configure
C2_OutcomeTerminal ==
    [][(Outcome # "NONE" /\ tab = "defuse" /\ tab' = "defuse" /\ ~ConfigureStep)
         => (Outcome' = Outcome /\ ~isRunning' /\ timeLeft' = timeLeft)]_vars

\* C3: a tick runs only while running; with remaining > 1 it takes 1 off and
\* the countdown stays running with outcome NONE, with remaining <= 1 it ends
\* at 0, stopped and EXPIRED; after k ticks since configure(d), remaining = d - k
C3_TickCountsDown ==
    [][TickStep =>
         /\ isRunning
         /\ Outcome = "NONE"
         /\ IF timeLeft > 1
            THEN timeLeft' = timeLeft - 1 /\ isRunning' /\ Outcome' = "NONE"
            ELSE timeLeft' = 0 /\ ~isRunning' /\ Outcome' = "EXPIRED"
         /\ timeLeft' = totalSeconds - ticksRun'
         /\ (ticksRun' < totalSeconds => isRunning')]_vars

\* C3 witness: configure(5), start and four ticks
C3_Witness ==
    /\ op = "tick"
    /\ totalSeconds = 5
    /\ ticksRun = 4
    /\ timeLeft = 1
    /\ isRunning

\* C4: a timer task of the countdown that runs while the countdown is stopped
\* changes nothing of the countdown or the puzzle and emits no feedback
C4_LateTickIsNoOp ==
    [][(RunTickTask /\ ~isRunning) => (UNCHANGED defuseVars /\ fx' = {})]_vars

\* C4 witness: a task that was pending at a successful disarm has run, with
\* seconds left that a callback would have taken off
C4_Witness ==
    /\ op = "droppedTick"
    /\ Outcome = "DISARMED"
    /\ timeLeft > 1
    /\ ~isRunning

\* C5: requestDisarm with the attempt active, outcome NONE and all 9 switches
\* set gives DISARMED, stopped, attempt over
C5_DisarmSuccess ==
    [][(toggleDisarm /\ disarmMode /\ Outcome = "NONE" /\ \A i \in Pads : pressed[i])
         => (Outcome' = "DISARMED" /\ ~isRunning' /\ ~disarmMode')]_vars

\* C5 witness: a running countdown was disarmed
C5_Witness ==
    /\ op = "toggleDisarm"
    /\ Outcome = "DISARMED"
    /\ \A i \in Pads : pressed[i]
    /\ intervalRef = "null"
    /\ timeLeft < totalSeconds
    /\ timeLeft > 0

\* C6: requestDisarm with the attempt active and a switch unset leaves outcome,
\* running, remaining and the switches as they are, and the attempt active
C6_FailedDisarmFrame ==
    [][(toggleDisarm /\ disarmMode /\ \E i \in Pads : ~pressed[i])
         => /\ UNCHANGED <<showExploded, showDisarmed, isRunning, timeLeft, pressed>>
            /\ disarmMode']_vars

\* C6 witness: a failed confirmation with eight of the nine switches set
C6_Witness ==
    /\ op = "toggleDisarm"
    /\ "failBeep" \in fx
    /\ disarmMode
    /\ isRunning
    /\ Cardinality({i \in Pads : pressed[i]}) = NumPads - 1

\* C7: configure(d), d > 0, gives remaining = total = d, stopped, outcome NONE,
\* attempt inactive, all switches false; a total of 0 leaves the countdown as it is
C7_Configure ==
    [][\A m \in MinuteInputs, s \in SecondInputs :
         Submit(m, s) =>
           IF m * 60 + s > 0
           THEN /\ timeLeft' = m * 60 + s
                /\ totalSeconds' = m * 60 + s
                /\ ~isRunning'
                /\ Outcome' = "NONE"
                /\ ~disarmMode'
                /\ \A i \in Pads : ~pressed'[i]
           ELSE UNCHANGED <<totalSeconds, timeLeft, isRunning, showExploded,
                            showDisarmed, disarmMode, pressed>>]_vars

\* C7 witness: configure while a tick of the running countdown was pending
C7_Witness ==
    /\ op = "submit"
    /\ tickTask = "stale"
    /\ timeLeft = totalSeconds
    /\ totalSeconds = 2
    /\ ~showSetup

\* C8: a press of start sets running only with remaining > 0 and outcome NONE;
\* in every other state it leaves remaining, running and outcome as they are
C8_StartGuard ==
    [][startTimer =>
         IF timeLeft > 0 /\ Outcome = "NONE"
         THEN isRunning' /\ UNCHANGED <<timeLeft, showExploded, showDisarmed>>
         ELSE UNCHANGED <<timeLeft, isRunning, showExploded, showDisarmed>>]_vars

\* C8 witness: start with the disarmed dialog open and seconds left
C8_Witness ==
    /\ op = "startTimer"
    /\ Outcome = "DISARMED"
    /\ timeLeft > 0
    /\ ~isRunning

\* C9: 0 <= remaining <= total, and remaining goes up only by configure
C9_RemainingBounded ==
    /\ [](0 <= timeLeft /\ timeLeft <= totalSeconds)
    /\ [][timeLeft' > timeLeft => ConfigureStep]_vars

\* C9 witness: a countdown part of the way down
C9_Witness ==
    /\ op = "tick"
    /\ 0 < timeLeft
    /\ timeLeft < totalSeconds

\* C10: value stays within [-100, 100]
C10_ValueBounded ==
    /\ -Bound <= value /\ value <= Bound
    /\ -Bound <= valueRef /\ valueRef <= Bound

\* C10 witness: a tick whose step would pass 100 left the bar at 100
C10_Witness ==
    /\ op = "domTick"
    /\ value = Bound
    /\ fillTimeRef = DefaultFill
    /\ kicks = 1

\* a step that runs the domination ticker
DomTickStep == \E now \in Times \cup RateTimes : domTick(now)

\* C11: never value = 100 with actor red, nor value = -100 with actor blue
C11_NoActorAtBound ==
    /\ ~(value = Bound /\ active = "red")
    /\ ~(value = -Bound /\ active = "blue")

C13_FillRate ==
    run # <<>> =>
        LET F == fillTimeRef
            raw == (6 * Units) \div F + ((Units \div 10) * run[2]) \div F
            reached == IF raw >= Bound THEN Bound ELSE raw
        IN  /\ value = (IF run[1] = "red" THEN reached ELSE -reached)
            /\ (active = "null") = (raw >= Bound)
            /\ (active # "null" => active = run[1])
            /\ (run[2] >= 1000 * F => active = "null" /\ (value = Bound \/ value = -Bound))

\* C13 witness: fill time 10, red pressed at value 0, ticks covering 10 s
C13_Witness ==
    /\ op = "domTick"
    /\ fillTimeRef = 10
    /\ run = <<"red", 10000>>
    /\ value = Bound
    /\ active = "null"

\* C14: a tick with actor NONE stores its own now in lastTickRef and leaves
\* value alone, and the first tick after setActiveAndKick(side) moves value by
\* no more than the time since that call is worth, however long the idle time
C14_IdleTimestamp ==
    [][\A now \in Times \cup RateTimes :
        /\ (domTick(now) /\ active = "null")
              => (lastTickRef' = <<now>> /\ value' = value)
        /\ (domTick(now) /\ active # "null" /\ op = "handleSide")
              => LET since == IF now - kickAt[1] < 0 THEN 0 ELSE now - kickAt[1]
                     most == ((Units \div 10) * since) \div fillTimeRef
                 IN  /\ value' - value <= most
                     /\ value - value' <= most]_vars

\* C14 witness: idle until 30 min, red pressed then, the tick at 60 min adds
\* what 30 min are worth at fill time 3600
C14_Witness ==
    /\ op = "domTick"
    /\ active = "red"
    /\ fillTimeRef = MaxFill
    /\ kickAt = <<1800000>>
    /\ lastTickRef = <<3600000>>
    /\ value = (6 * Units) \div MaxFill + ((Units \div 10) * 1800000) \div MaxFill

\* C15: setActiveAndKick(side) for red or blue sets the actor to side, moves
\* value by what 60 ms are worth at the current fill time, up for red and down
\* for blue, clamped to the bounds, and stores now in lastTickRef;
\* setActiveAndKick(null) sets the actor to NONE and leaves value and
\* lastTickRef as they were
C15_SetActor ==
    [][/\ \A side \in {"red", "blue"}, now \in Times \cup RateTimes :
            handleSide(side, now) =>
                LET amount == (6 * Units) \div fillTimeSec
                    moved == IF side = "red" THEN value + amount ELSE value - amount
                IN  /\ active' = side
                    /\ value' = (IF moved > Bound THEN Bound
                                 ELSE IF moved < -Bound THEN -Bound ELSE moved)
                    /\ lastTickRef' = <<now>>
       /\ handlePause => (active' = "null" /\ UNCHANGED <<value, lastTickRef>>)]_vars

\* C15 witness: blue pressed at 30 min with the bar at 0 and the default fill time
C15_Witness ==
    /\ op = "handleSide"
    /\ active = "blue"
    /\ fillTimeSec = DefaultFill
    /\ value = -((6 * Units) \div DefaultFill)
    /\ lastTickRef = <<1800000>>

\* C16: reset gives value 0, actor NONE and lastTickRef = now from any state,
\* and leaves the fill time alone
C16_Reset ==
    [][\A now \in Times \cup RateTimes :
        handleReset(now) =>
            /\ value' = 0
            /\ active' = "null"
            /\ lastTickRef' = <<now>>
            /\ fillTimeSec' = fillTimeSec]_vars

\* C16 witness: a reset at 60 min after a side was pressed at another time,
\* with a fill time that is not the default
C16_Witness ==
    /\ op = "handleReset"
    /\ value = 0
    /\ active = "null"
    /\ fillTimeSec = MaxFill
    /\ kickAt = <<0>>
    /\ lastTickRef = <<3600000>>

\* C17: the fill time, and its mirror that tick and kick read, is always
\* between 1 and 3600
C17_FillTimeInRange ==
    /\ MinFill <= fillTimeSec /\ fillTimeSec <= MaxFill
    /\ MinFill <= fillTimeRef /\ fillTimeRef <= MaxFill

\* C17 witness: the field was changed and the stored fill time is the lower limit
C17_Witness ==
    /\ op = "setFillTime"
    /\ fillTimeSec = MinFill
    /\ fillTimeRef = MinFill

\* C18: changing the fill time leaves value, the actor and lastTickRef alone,
\* and a later tick integrates at the rate of the fill time stored then
C18_FillTimeNotRetroactive ==
    [][/\ (\E raw \in FillInputs \cup RateFillInputs : setFillTime(raw))
            => UNCHANGED <<value, valueRef, active, activeRef, lastTickRef>>
       /\ \A now \in Times \cup RateTimes :
            (domTick(now) /\ active # "null" /\ lastTickRef # <<>>) =>
                LET dtMs == IF now - lastTickRef[1] < 0 THEN 0 ELSE now - lastTickRef[1]
                    amount == ((Units \div 10) * dtMs) \div fillTimeSec
                    moved == IF active = "red" THEN value + amount ELSE value - amount
                IN  value' = (IF moved > Bound THEN Bound
                              ELSE IF moved < -Bound THEN -Bound ELSE moved)]_vars

\* C18 witness: red pressed at the default fill time, the fill time changed to
\* 3600, then a tick 30 min later: the kick stays at the old rate and the tick
\* adds 30 min at the new one
C18_Witness ==
    /\ op = "domTick"
    /\ active = "red"
    /\ fillTimeSec = MaxFill
    /\ value = (6 * Units) \div DefaultFill + ((Units \div 10) * 1800000) \div MaxFill

\* the first press of the disarm button of an attempt
BeginStep == toggleDisarm /\ ~disarmMode

\* C19: a switch is set only while the attempt is active, and while it is not
\* active the switches decide nothing: the disarm button then only starts an
\* attempt, leaving running, remaining and the outcome alone, and no step
\* taken while inactive produces the disarmed outcome
C19_PressOnlyWhileActive ==
    [][/\ (\E i \in Pads : ~pressed[i] /\ pressed'[i]) => disarmMode
       /\ (~disarmMode /\ toggleDisarm)
            => UNCHANGED <<isRunning, timeLeft, totalSeconds, showExploded, showDisarmed>>
       /\ ~disarmMode => ~(~showDisarmed /\ showDisarmed')]_vars

\* C19 witness: the countdown ticking with no attempt active and all nine
\* switches still set from an earlier one, and no outcome
C19_Witness ==
    /\ op = "tick"
    /\ ~disarmMode
    /\ \A i \in Pads : pressed[i]
    /\ isRunning
    /\ Outcome = "NONE"

\* C20: while the defuse tab stays mounted a switch goes back to false only
\* when an attempt begins or a time is configured; beginning leaves all nine
\* false with the attempt active; the end of an attempt by expiry or by a
\* successful disarm deactivates it and leaves the switches as they were
C20_SwitchesClearedOnlyByBegin ==
    [][(tab = "defuse" /\ tab' = "defuse") =>
        /\ (\E i \in Pads : pressed[i] /\ ~pressed'[i]) => (BeginStep \/ ConfigureStep)
        /\ BeginStep => (pressed' = NoPads /\ disarmMode')
        /\ (disarmMode /\ ~disarmMode' /\ ~ConfigureStep)
              => (pressed' = pressed /\ (showExploded' \/ showDisarmed'))]_vars

\* C20 witness: the countdown expired during an attempt and the switches set
\* in it are still set
C20_Witness ==
    /\ op = "tick"
    /\ showExploded
    /\ ~disarmMode
    /\ \E i \in Pads : pressed[i]
    /\ \E i \in Pads : ~pressed[i]

\* C21: a press of pad i leaves exactly the switches set that were set before
\* plus switch i: pressing a set switch changes nothing, no press clears a
\* switch, and the switches after any presses are the set of pads pressed,
\* whatever the order
C21_PressIdempotent ==
    [][\A i \in Pads :
        pressPad(i) =>
            /\ (pressed[i] => pressed' = pressed)
            /\ \A j \in Pads : pressed[j] => pressed'[j]
            /\ \A j \in Pads : pressed'[j] = (pressed[j] \/ j = i)]_vars

\* C21 witness: pads 8 and 0 were pressed (in either order, any number of
\* times) and no other
C21_Witness ==
    /\ op = "pressPad"
    /\ disarmMode
    /\ \A j \in Pads : pressed[j] = (j = 0 \/ j = 8)

\* C22: the two engines share nothing: a step of the defuse tab leaves value,
\* the actor and the fill time alone, a step of the domination tab leaves
\* remaining, running, the outcome and the switches alone, and selecting a tab
\* leaves the domination state as it was (value goes back to 0 by reset only)
C22_EnginesIndependent ==
    [][/\ (tab = "defuse" /\ tab' = "defuse")
            => UNCHANGED <<value, active, fillTimeSec>>
       /\ (tab = "domination" /\ tab' = "domination")
            => UNCHANGED <<timeLeft, isRunning, showExploded, showDisarmed, pressed>>
       /\ (tab' # tab) => UNCHANGED <<value, active, fillTimeSec>>]_vars

\* C23: the tick that expires the countdown ends the disarm attempt and emits
\* the explosion sound and the strong vibration, which no other step emits and
\* which it emits from a state that is not yet exploded; every other tick
\* emits one tick sound, urgent iff the new remaining is 10 or less, and the
\* light vibration iff the new remaining is 5 or less
C23_TickFeedback ==
    [][/\ (TickStep /\ timeLeft <= 1)
            => /\ ~disarmMode'
               /\ ~showExploded
               /\ fx' = {"explosion", "vibrate200"}
       /\ (TickStep /\ timeLeft > 1)
            => fx' = (IF timeLeft - 1 <= 10 THEN {"tickUrgent"} ELSE {"tick"})
                       \cup (IF timeLeft - 1 <= 5 THEN {"vibrate30"} ELSE {})
       /\ ("explosion" \in fx' \/ "vibrate200" \in fx')
            => (TickStep /\ timeLeft <= 1)]_vars

\* C23 witness: a tick from 12 to 11 with the plain tick sound and no vibration
C23_Witness ==
    /\ op = "tick"
    /\ timeLeft = 11
    /\ fx = {"tick"}

\* C24: every press of a side applies one whole kick, also when that side is
\* the actor already and when the press follows another press with no tick in
\* between: two presses of one side from 0 give twice the kick, and a press
\* of the other side right after a press from 0 brings value back to 0
C24_FixedKickPerCall ==
    [][\A side \in {"red", "blue"}, now \in Times \cup RateTimes :
        handleSide(side, now) =>
            LET amount == (6 * Units) \div fillTimeSec
                moved == IF side = "red" THEN value + amount ELSE value - amount
            IN  /\ (op = "handleSide" \/ active = side) =>
                    value' = (IF moved > Bound THEN Bound
                              ELSE IF moved < -Bound THEN -Bound ELSE moved)
                /\ (op = "handleSide" /\ run = <<side, 0>> /\ 2 * amount <= Bound) =>
                    value' = (IF side = "red" THEN 2 * amount ELSE -(2 * amount))
                /\ (op = "handleSide" /\ run # <<>> /\ run[2] = 0 /\ run[1] # side) =>
                    value' = 0]_vars

\* C24 witness: red pressed twice from 0 at the default fill time
C24_Witness ==
    /\ op = "handleSide"
    /\ kicks = 2
    /\ active = "red"
    /\ fillTimeSec = DefaultFill
    /\ value = 2 * ((6 * Units) \div DefaultFill)

\* C25: in no reachable state are the exploded and the disarmed dialog both
\* shown, however a tick callback, a successful disarm and the closing of a
\* dialog interleave
C25_OutcomesExclusive == ~(showExploded /\ showDisarmed)

\* C26: with the interval callback firing, a running countdown always stops
\* running (by expiry, by a successful disarm, by a new time being set or by
\* the tab being left)
C26_RunningEnds == isRunning ~> ~isRunning

\* C26 witness: a countdown of more than one second that ran all its ticks
\* and expired
C26_Witness ==
    /\ op = "tick"
    /\ ~isRunning
    /\ showExploded
    /\ totalSeconds > 1
    /\ ticksRun = totalSeconds

====
